---- MODULE Spec2Model ----
(***************************************************************************)
(* Model of findconn (src/main.rs): the recursive, concurrent              *)
(* discover_sites traversal over a SurrealDB node table and relation       *)
(* table.  One task = one invocation of discover_sites; a task is named by *)
(* the sequence of raw link strings that leads to it from the seed (the    *)
(* root invocation is <<>>).  A task takes one step per await point.       *)
(***************************************************************************)
EXTENDS Bags, FiniteSets, Integers, Naturals, Sequences, TLC

(* ---------------------------------------------------------------- bounds *)

\* number of store / fetch / join faults the environment may inject
MaxFaults == 1

\* number of times the program is run against the same output directory
MaxRuns == 2

(* ------------------------------------------------------------ the inputs *)

\* Raw link strings are token sequences: <<scheme, host>> or
\* <<scheme, host, "/">>; a string whose first token is not a scheme is one
\* that Url::parse rejects.
Schemes == {"http://"}

RawA == <<"http://", "a">>
RawB == <<"http://", "b">>
RawBs == <<"http://", "b", "/">>
RawC == <<"http://", "c">>
RawD == <<"http://", "d">>
RawBad == <<"http://[", "x">>

\* an absent Option: None is <<>>, Some(x) is <<x>>
None == <<>>
Some(x) == <<x>>

\* the Err of Url::parse
ParseErr == <<>>

\* Url::parse(&url)?.to_string(): an error for an unparsable string,
\* otherwise the serialisation, in which an empty path is written "/".
UrlParse(raw) ==
    IF raw[1] \notin Schemes THEN ParseErr
    ELSE IF Len(raw) = 2 THEN Append(raw, "/") ELSE raw

UrlA == UrlParse(RawA)
UrlB == UrlParse(RawB)
UrlC == UrlParse(RawC)
UrlD == UrlParse(RawD)

\* A response of the web: status, declared content type (token sequence
\* <<type, "/", subtype>> followed by optional parameters, <<>> when the
\* header is missing) and the URL-shaped substrings of the body, in order
\* of occurrence (duplicates possible).
Resp(st, ct, body) == [status |-> st, ctype |-> ct, body |-> body]

TextHtml == <<"text", "/", "html">>
TextHtmlUtf8 == <<"text", "/", "html", ";", "charset=utf-8">>
AppPdf == <<"application", "/", "pdf">>
AppJson == <<"application", "/", "json">>
AppXhtml == <<"application", "/", "xhtml+xml">>
NoCtype == <<>>

NotFound == Resp(404, TextHtml, <<>>)

\* The worlds the traversal is run in: the seed and the response for each
\* canonical URL (any URL not listed answers 404 with an empty text page).
\*   1: a, b and c each link to the other two (a's body names b twice);
\*   2: a lists b under two spellings and a malformed link; b is a 404 page
\*      whose body links to c; c is a PDF;
\*   3: a chain a -> b -> c -> d with b served as JSON, c as XHTML, d with
\*      no content type;
\*   4: the seed itself does not parse.
Worlds == 1..4

Seed(w) == IF w = 4 THEN RawBad ELSE RawA

Web(w, url) ==
    CASE w = 1 /\ url = UrlA -> Resp(200, TextHtml, <<RawB, RawC, RawB>>)
      [] w = 1 /\ url = UrlB -> Resp(200, TextHtmlUtf8, <<RawC, RawA>>)
      [] w = 1 /\ url = UrlC -> Resp(200, TextHtml, <<RawA, RawB>>)
      [] w = 2 /\ url = UrlA -> Resp(200, TextHtml, <<RawB, RawBs, RawBad>>)
      [] w = 2 /\ url = UrlB -> Resp(404, TextHtml, <<RawC>>)
      [] w = 2 /\ url = UrlC -> Resp(200, AppPdf, <<RawA>>)
      [] w = 3 /\ url = UrlA -> Resp(200, TextHtmlUtf8, <<RawB>>)
      [] w = 3 /\ url = UrlB -> Resp(200, AppJson, <<RawC>>)
      [] w = 3 /\ url = UrlC -> Resp(200, AppXhtml, <<RawD>>)
      [] w = 3 /\ url = UrlD -> Resp(200, NoCtype, <<RawA>>)
      [] OTHER -> NotFound

(* -------------------------------------------------------------- the state *)

VARIABLES
    world,      \* the world this behaviour runs in (never changes)
    run,        \* how many times the program has been started
    mainpc,     \* main: "startup", "scraping" (awaiting the root call), "exited"
    exit,       \* the process's exit code once main has returned (-1 before)
    nodes,      \* the node table: records [id, url]
    edges,      \* the relation table: a bag of records [in, out]
    tasks,      \* path |-> invocation of discover_sites
    errlog,     \* the child invocations whose Err was logged at a join
    faults,     \* faults injected so far
    store0      \* the store as the current run found it

vars == <<world, run, mainpc, exit, nodes, edges, tasks, errlog, faults, store0>>

Root == <<>>

NoTasks == [p \in {} |-> 0]

\* SiteURLNode::new(url): the id is absent until the store assigns one
SiteURLNode(url) == [url |-> url, id |-> None]

\* The frame of one invocation at its entry: the raw link it was given and
\* the parent's node (None for the seed).
NewTask(link, source) ==
    [pc |-> "query", link |-> link, url |-> ParseErr, source |-> source,
     obj |-> SiteURLNode(ParseErr), handles |-> {}, queries |-> 0, gets |-> 0,
     found |-> FALSE, result |-> "None"]

Running == {t \in DOMAIN tasks : tasks[t].pc # "done"}

Children(t) == {c \in DOMAIN tasks : Len(c) = Len(t) + 1 /\ SubSeq(c, 1, Len(t)) = t}

CanFault == faults < MaxFaults

\* the ids the store generates: unique per created record
NewId(t) == <<run, t>>

\* Findings with a fault seeded: only the nodes this process created are
\* looked at
FindingsThisRun(url) == {n \in nodes : n.url = url /\ n.id[1] = run}

\* SELECT id FROM type::table($table) WHERE url = $url LIMIT 1
Findings(url) == {n \in nodes : n.url = url}

\* content_type.starts_with("text/")
StartsWithText(ct) == Len(ct) >= 2 /\ ct[1] = "text" /\ ct[2] = "/"

APPLICATION_TEXT_HEADERS ==
    { <<"application", "/", "json">>,
      <<"application", "/", "xml">>,
      <<"application", "/", "javascript">>,
      <<"application", "/", "ld+json">>,
      <<"application", "/", "xtml+xml">> }

\* the negation of the test that makes discover_sites ignore a response
IsTextual(ct) == StartsWithText(ct) \/ ct \in APPLICATION_TEXT_HEADERS

\* link_finder.links(&content) collected into a HashSet<String>
Links(body) == {body[i] : i \in 1..Len(body)}

\* What an invocation returns: "Ok", or an Err carrying what failed; "Panic"
\* is a task that ended in a panic, "None" one that has not returned.
Errors == {"InvalidURL", "StoreError", "FetchError", "JoinError"}

Finish(t, res) == [tasks[t] EXCEPT !.pc = "done", !.result = res, !.handles = {}]

(* -------------------------------------------------------------- main *)

Init ==
    /\ world \in Worlds
    /\ run = 1
    /\ mainpc = "startup"
    /\ exit = -1
    /\ nodes = {}
    /\ edges = EmptyBag
    /\ tasks = NoTasks
    /\ errlog = {}
    /\ faults = 0
    /\ store0 = [nodes |-> {}, edges |-> EmptyBag]

\* main up to the call of discover_sites: opening the store, selecting the
\* namespace and building the client can each fail, which ends the process.
Startup ==
    /\ mainpc = "startup"
    /\ \/ /\ mainpc' = "scraping"
          /\ tasks' = (Root :> NewTask(Seed(world), None))
          /\ UNCHANGED <<exit, faults>>
       \/ /\ CanFault
          /\ faults' = faults + 1
          /\ mainpc' = "exited"
          /\ exit' = 1
          /\ UNCHANGED tasks
    /\ UNCHANGED <<world, run, nodes, edges, errlog, store0>>

\* discover_sites(...).await? in main: an Err (or a panic) of the root call
\* ends the process with a failure, Ok lets main return Ok(()).  When main
\* returns the runtime is dropped and no task runs any further.
MainReturn ==
    /\ mainpc = "scraping"
    /\ tasks[Root].pc = "done"
    /\ mainpc' = "exited"
    /\ exit' = IF tasks[Root].result = "Ok" THEN 0 ELSE 1
    /\ UNCHANGED <<world, run, nodes, edges, tasks, errlog, faults, store0>>

\* the program is started again on the same output directory and seed
Rerun ==
    /\ mainpc = "exited"
    /\ run < MaxRuns
    /\ run' = run + 1
    /\ mainpc' = "startup"
    /\ exit' = -1
    /\ tasks' = NoTasks
    /\ errlog' = {}
    /\ store0' = [nodes |-> nodes, edges |-> edges]
    /\ UNCHANGED <<world, nodes, edges, faults>>

(* ------------------------------------------------------- discover_sites *)

\* StepQuery with a fault seeded: the findings are not looked at
StepQueryNoSkip(t) ==
    /\ tasks[t].pc = "query"
    /\ LET url == UrlParse(tasks[t].link) IN
       \/ /\ url = ParseErr
          /\ tasks' = [tasks EXCEPT ![t] = Finish(t, "InvalidURL")]
          /\ UNCHANGED faults
       \/ /\ url # ParseErr
          /\ CanFault
          /\ faults' = faults + 1
          /\ tasks' = [tasks EXCEPT ![t] = [Finish(t, "StoreError") EXCEPT !.url = url, !.queries = 1]]
       \/ /\ url # ParseErr
          /\ tasks' = [tasks EXCEPT ![t].url = url, ![t].queries = 1,
                                    ![t].pc = "create"]
          /\ UNCHANGED faults
    /\ UNCHANGED <<world, run, mainpc, exit, nodes, edges, errlog, store0>>

\* StepQuery with a fault seeded: a link that does not parse is used as it is
StepQueryLenient(t) ==
    /\ tasks[t].pc = "query"
    /\ LET parsed == UrlParse(tasks[t].link)
           url == IF parsed = ParseErr THEN tasks[t].link ELSE parsed
       IN
       \/ /\ CanFault
          /\ faults' = faults + 1
          /\ tasks' = [tasks EXCEPT ![t] =
                [Finish(t, "StoreError") EXCEPT !.url = url, !.queries = 1]]
       \/ /\ Findings(url) # {}
          /\ tasks' = [tasks EXCEPT ![t] =
                [Finish(t, "Ok") EXCEPT !.url = url, !.queries = 1, !.found = TRUE]]
          /\ UNCHANGED faults
       \/ /\ Findings(url) = {}
          /\ tasks' = [tasks EXCEPT ![t].url = url, ![t].queries = 1,
                                    ![t].pc = "create"]
          /\ UNCHANGED faults
    /\ UNCHANGED <<world, run, mainpc, exit, nodes, edges, errlog, store0>>

\* StepQuery with a fault seeded: a link whose node exists is related to it
StepQueryRelateFound(t) ==
    /\ tasks[t].pc = "query"
    /\ LET url == UrlParse(tasks[t].link) IN
       \/ /\ url = ParseErr
          /\ tasks' = [tasks EXCEPT ![t] = Finish(t, "InvalidURL")]
          /\ UNCHANGED <<faults, edges>>
       \/ /\ url # ParseErr
          /\ CanFault
          /\ faults' = faults + 1
          /\ tasks' = [tasks EXCEPT ![t] =
                [Finish(t, "StoreError") EXCEPT !.url = url, !.queries = 1]]
          /\ UNCHANGED edges
       \/ /\ url # ParseErr
          /\ Findings(url) # {}
          /\ tasks' = [tasks EXCEPT ![t] =
                [Finish(t, "Ok") EXCEPT !.url = url, !.queries = 1, !.found = TRUE]]
          /\ edges' = IF tasks[t].source = None THEN edges
                      ELSE edges (+) SetToBag({[in |-> tasks[t].source[1].id[1],
                                                out |-> (CHOOSE n \in Findings(url) : TRUE).id]})
          /\ UNCHANGED faults
       \/ /\ url # ParseErr
          /\ Findings(url) = {}
          /\ tasks' = [tasks EXCEPT ![t].url = url, ![t].queries = 1,
                                    ![t].pc = "create"]
          /\ UNCHANGED <<faults, edges>>
    /\ UNCHANGED <<world, run, mainpc, exit, nodes, errlog, store0>>

\* Lines 100-113: parse the link, ask the store for a node with the
\* canonical URL, and return Ok when there is one.
StepQuery(t) ==
    /\ tasks[t].pc = "query"
    /\ LET url == UrlParse(tasks[t].link) IN
       \/ /\ url = ParseErr
          /\ tasks' = [tasks EXCEPT ![t] = Finish(t, "InvalidURL")]
          /\ UNCHANGED faults
       \/ /\ url # ParseErr
          /\ CanFault
          /\ faults' = faults + 1
          /\ tasks' = [tasks EXCEPT ![t] = [Finish(t, "StoreError") EXCEPT !.url = url, !.queries = 1]]
       \/ /\ url # ParseErr
          /\ Findings(url) # {}
          /\ tasks' = [tasks EXCEPT ![t] =
                         [Finish(t, "Ok") EXCEPT !.url = url, !.queries = 1, !.found = TRUE]]
          /\ UNCHANGED faults
       \/ /\ url # ParseErr
          /\ Findings(url) = {}
          /\ tasks' = [tasks EXCEPT ![t].url = url, ![t].queries = 1,
                                    ![t].pc = "create"]
          /\ UNCHANGED faults
    /\ UNCHANGED <<world, run, mainpc, exit, nodes, edges, errlog, store0>>

\* StepCreate with a fault seeded: the edge from the parent is left out
StepCreateNoRelate(t) ==
    /\ tasks[t].pc = "create"
    /\ \/ /\ nodes' = nodes \cup {[id |-> NewId(t), url |-> tasks[t].url]}
          /\ tasks' = [tasks EXCEPT
                ![t].obj = [url |-> tasks[t].url, id |-> Some(NewId(t))],
                ![t].pc = "fetch"]
          /\ UNCHANGED faults
       \/ /\ CanFault
          /\ faults' = faults + 1
          /\ \E res \in {"StoreError", "Panic"} :
                tasks' = [tasks EXCEPT ![t] =
                    [Finish(t, res) EXCEPT !.obj = SiteURLNode(tasks[t].url)]]
          /\ UNCHANGED nodes
    /\ UNCHANGED <<world, run, mainpc, exit, edges, errlog, store0>>

\* Lines 115-121: create the node and keep its id; the store can answer
\* with an error (?) or with no record (the unwrap panics).
StepCreate(t) ==
    /\ tasks[t].pc = "create"
    /\ \/ /\ nodes' = nodes \cup {[id |-> NewId(t), url |-> tasks[t].url]}
          /\ tasks' = [tasks EXCEPT
                ![t].obj = [url |-> tasks[t].url, id |-> Some(NewId(t))],
                ![t].pc = IF tasks[t].source # None THEN "relate" ELSE "fetch"]
          /\ UNCHANGED faults
       \/ /\ CanFault
          /\ faults' = faults + 1
          /\ \E res \in {"StoreError", "Panic"} :
                tasks' = [tasks EXCEPT ![t] =
                    [Finish(t, res) EXCEPT !.obj = SiteURLNode(tasks[t].url)]]
          /\ UNCHANGED nodes
    /\ UNCHANGED <<world, run, mainpc, exit, edges, errlog, store0>>

\* Lines 123-131: RELATE the parent's node to the new one.
StepRelate(t) ==
    /\ tasks[t].pc = "relate"
    /\ LET source == tasks[t].source[1] IN
       \/ /\ source.id = None
          /\ tasks' = [tasks EXCEPT ![t] = Finish(t, "Panic")]
          /\ UNCHANGED <<edges, faults>>
       \/ /\ source.id # None
          /\ edges' = edges (+) SetToBag({[in |-> source.id[1], out |-> tasks[t].obj.id[1]]})
          /\ tasks' = [tasks EXCEPT ![t].pc = "fetch"]
          /\ UNCHANGED faults
       \/ /\ source.id # None
          /\ CanFault
          /\ faults' = faults + 1
          /\ tasks' = [tasks EXCEPT ![t] = Finish(t, "StoreError")]
          /\ UNCHANGED edges
    /\ UNCHANGED <<world, run, mainpc, exit, nodes, errlog, store0>>

\* StepFetch with a fault seeded: only one of the links gets a child
StepFetchOneChild(t) ==
    /\ tasks[t].pc = "fetch"
    /\ LET res == Web(world, tasks[t].url)
           got == [tasks[t] EXCEPT !.gets = @ + 1]
           links == Links(res.body)
           kids == IF links = {} THEN {} ELSE {Append(t, CHOOSE l \in links : TRUE)}
       IN
       \/ /\ CanFault
          /\ faults' = faults + 1
          /\ tasks' = [tasks EXCEPT ![t] = [got EXCEPT !.pc = "done", !.result = "FetchError"]]
       \/ /\ ~IsTextual(res.ctype)
          /\ tasks' = [tasks EXCEPT ![t] = [got EXCEPT !.pc = "done", !.result = "Ok"]]
          /\ UNCHANGED faults
       \/ /\ IsTextual(res.ctype)
          /\ tasks' = [p \in DOMAIN tasks \cup kids |->
                IF p = t THEN
                    IF kids = {} THEN [got EXCEPT !.pc = "done", !.result = "Ok"]
                    ELSE [got EXCEPT !.pc = "join", !.handles = kids]
                ELSE IF p \in kids THEN NewTask(p[Len(p)], Some(tasks[t].obj))
                ELSE tasks[p]]
          /\ UNCHANGED faults
    /\ UNCHANGED <<world, run, mainpc, exit, nodes, edges, errlog, store0>>

\* StepFetch with a fault seeded: the children get the node as it was before
\* the store assigned its id
StepFetchStaleNode(t) ==
    /\ tasks[t].pc = "fetch"
    /\ LET res == Web(world, tasks[t].url)
           got == [tasks[t] EXCEPT !.gets = @ + 1]
           links == Links(res.body)
           kids == {Append(t, l) : l \in links}
       IN
       \/ /\ CanFault
          /\ faults' = faults + 1
          /\ tasks' = [tasks EXCEPT ![t] = [got EXCEPT !.pc = "done", !.result = "FetchError"]]
       \/ /\ ~IsTextual(res.ctype)
          /\ tasks' = [tasks EXCEPT ![t] = [got EXCEPT !.pc = "done", !.result = "Ok"]]
          /\ UNCHANGED faults
       \/ /\ IsTextual(res.ctype)
          /\ tasks' = [p \in DOMAIN tasks \cup kids |->
                IF p = t THEN
                    IF kids = {} THEN [got EXCEPT !.pc = "done", !.result = "Ok"]
                    ELSE [got EXCEPT !.pc = "join", !.handles = kids]
                ELSE IF p \in kids THEN NewTask(p[Len(p)], Some(SiteURLNode(tasks[t].url)))
                ELSE tasks[p]]
          /\ UNCHANGED faults
    /\ UNCHANGED <<world, run, mainpc, exit, nodes, edges, errlog, store0>>

\* StepFetch with a fault seeded: the content type is not tested
StepFetchAnyType(t) ==
    /\ tasks[t].pc = "fetch"
    /\ LET res == Web(world, tasks[t].url)
           got == [tasks[t] EXCEPT !.gets = @ + 1]
           links == Links(res.body)
           kids == {Append(t, l) : l \in links}
       IN
       \/ /\ CanFault
          /\ faults' = faults + 1
          /\ tasks' = [tasks EXCEPT ![t] = [got EXCEPT !.pc = "done", !.result = "FetchError"]]
       \/ /\ tasks' = [p \in DOMAIN tasks \cup kids |->
                IF p = t THEN
                    IF kids = {} THEN [got EXCEPT !.pc = "done", !.result = "Ok"]
                    ELSE [got EXCEPT !.pc = "join", !.handles = kids]
                ELSE IF p \in kids THEN NewTask(p[Len(p)], Some(tasks[t].obj))
                ELSE tasks[p]]
          /\ UNCHANGED faults
    /\ UNCHANGED <<world, run, mainpc, exit, nodes, edges, errlog, store0>>

\* Lines 133-172 and the Ok of line 182 when there is nothing to await:
\* one GET, the content-type test, the body, and one spawned child per
\* distinct link, each given a clone of this invocation's node.
StepFetch(t) ==
    /\ tasks[t].pc = "fetch"
    /\ LET res == Web(world, tasks[t].url)
           got == [tasks[t] EXCEPT !.gets = @ + 1]
           links == Links(res.body)
           kids == {Append(t, l) : l \in links}
       IN
       \/ /\ CanFault
          /\ faults' = faults + 1
          /\ tasks' = [tasks EXCEPT ![t] = [got EXCEPT !.pc = "done", !.result = "FetchError"]]
       \/ /\ ~IsTextual(res.ctype)
          /\ tasks' = [tasks EXCEPT ![t] = [got EXCEPT !.pc = "done", !.result = "Ok"]]
          /\ UNCHANGED faults
       \/ /\ IsTextual(res.ctype)
          /\ tasks' = [p \in DOMAIN tasks \cup kids |->
                IF p = t THEN
                    IF kids = {} THEN [got EXCEPT !.pc = "done", !.result = "Ok"]
                    ELSE [got EXCEPT !.pc = "join", !.handles = kids]
                ELSE IF p \in kids THEN NewTask(p[Len(p)], Some(tasks[t].obj))
                ELSE tasks[p]]
          /\ UNCHANGED faults
    /\ UNCHANGED <<world, run, mainpc, exit, nodes, edges, errlog, store0>>

\* Lines 174-182: await one spawned child.  A child that panicked makes
\* h.await an Err, which the ? returns at once (the handles not yet awaited
\* are dropped, their tasks keep running); a child's own Err is logged.
\* After the last handle the invocation returns Ok.  The handles are awaited
\* in the iteration order of the HashSet, which is any order.
StepJoin(t, h) ==
    /\ tasks[t].pc = "join"
    /\ h \in tasks[t].handles
    /\ tasks[h].pc = "done"
    /\ \/ /\ tasks[h].result = "Panic"
          /\ tasks' = [tasks EXCEPT ![t] = Finish(t, "JoinError")]
          /\ UNCHANGED errlog
       \/ /\ tasks[h].result # "Panic"
          /\ errlog' = IF tasks[h].result \in Errors THEN errlog \cup {h} ELSE errlog
          /\ tasks' = [tasks EXCEPT ![t] =
                IF tasks[t].handles = {h} THEN Finish(t, "Ok")
                ELSE [tasks[t] EXCEPT !.handles = @ \ {h}]]
    /\ UNCHANGED <<world, run, mainpc, exit, nodes, edges, faults, store0>>

\* nothing runs once main has returned: the runtime is dropped with it
Scraping == mainpc = "scraping"

Query == \E t \in DOMAIN tasks : Scraping /\ StepQuery(t)

Create == \E t \in DOMAIN tasks : Scraping /\ StepCreate(t)

Relate == \E t \in DOMAIN tasks : Scraping /\ StepRelate(t)

Fetch == \E t \in DOMAIN tasks : Scraping /\ StepFetch(t)

Join == \E t \in DOMAIN tasks : \E h \in tasks[t].handles : Scraping /\ StepJoin(t, h)

TaskStep == Query \/ Create \/ Relate \/ Fetch \/ Join

Next ==
    \/ Startup
    \/ MainReturn
    \/ Rerun
    \/ Query
    \/ Create
    \/ Relate
    \/ Fetch
    \/ Join

Spec == Init /\ [][Next]_vars

\* the tokio scheduler polls every runnable task, and main resumes once the
\* root call has returned
FairSpec == Spec /\ WF_vars(TaskStep) /\ WF_vars(MainReturn)

(* ------------------------------------------------------------ vocabulary *)

Started == Root \in DOMAIN tasks

RootReturned == Started /\ tasks[Root].pc = "done"

Done(t) == tasks[t].pc = "done"

HasNode(t) == tasks[t].obj.id # None

NodeId(t) == tasks[t].obj.id[1]

EdgeSet == BagToSet(edges)

NodesWithUrl(url) == {n \in nodes : n.url = url}

\* proper ancestors of an invocation in the call tree
Ancestors(t) == {SubSeq(t, 1, k) : k \in 0..(Len(t) - 1)}

(* ---------------------------------------------------------------- claims *)

\* C1: when the root call has returned, the node table holds at most one
\* node for every canonical URL.
C1_DedupAtCompletion ==
    RootReturned =>
        \A n1 \in nodes, n2 \in nodes : n1.url = n2.url => n1 = n2

\* C2: when the traversal has completed without any fault, for every page P
\* that was expanded and every (parsable) link Q extracted from it the
\* relation table holds an edge from P's node to a node of Q.
C2_EdgeForEveryLink ==
    (RootReturned /\ faults = 0 /\ Running = {}) =>
        \A p \in DOMAIN tasks : \A c \in Children(p) :
            UrlParse(tasks[c].link) # ParseErr =>
                \E e \in EdgeSet :
                    /\ e.in = NodeId(p)
                    /\ \E n \in NodesWithUrl(UrlParse(tasks[c].link)) : n.id = e.out

NoReexpansion ==
    \A t \in DOMAIN tasks :
        HasNode(t) => \A a \in Ancestors(t) : tasks[a].url # tasks[t].url

\* C3: over a finite link graph, cycles included, the root call eventually
\* returns, with every invocation finished when no fault occurred, and no
\* invocation expands a URL that one of its ancestors expanded.
C3_Termination ==
    /\ []NoReexpansion
    /\ Scraping ~> (RootReturned /\ (faults = 0 => Running = {}))

C3_Witness ==
    /\ world = 1
    /\ faults = 0
    /\ RootReturned
    /\ Running = {}
    /\ \E t \in DOMAIN tasks : Len(t) = 3 /\ tasks[t].found

\* C4: when the root call returns, no invocation is still running.
C4_JoinComplete == RootReturned => Running = {}

\* C5: an invocation that spawned children returns only after all of them
\* have ended, returns Ok, and has logged every child that returned an Err.
C5_ChildFailureIsolated ==
    \A t \in DOMAIN tasks :
        (Done(t) /\ Children(t) # {}) =>
            /\ tasks[t].result = "Ok"
            /\ \A c \in Children(t) :
                  Done(c) /\ (tasks[c].result \in Errors => c \in errlog)

SeedInStore0 == \E n \in store0.nodes : n.url = UrlParse(Seed(world))

\* C6: a run started on a store that already holds the seed's node creates
\* no node and no edge and issues no GET.
C6_IdempotentRerun ==
    (run > 1 /\ SeedInStore0) =>
        /\ nodes = store0.nodes
        /\ edges = store0.edges
        /\ \A t \in DOMAIN tasks : tasks[t].gets = 0 /\ Children(t) = {}

C6_Witness ==
    /\ run = 2
    /\ mainpc = "exited"
    /\ exit = 0
    /\ tasks[Root].found
    /\ Cardinality(store0.nodes) >= 3
    /\ edges # EmptyBag

Stepped(t) == t \in DOMAIN tasks' /\ tasks'[t] # tasks[t]

QueryFinds(t) ==
    /\ tasks[t].pc = "query"
    /\ UrlParse(tasks[t].link) # ParseErr
    /\ Findings(UrlParse(tasks[t].link)) # {}
    /\ Stepped(t)
    /\ faults' = faults

ShortCircuited(t) ==
    /\ Done(t)
    /\ tasks[t].result = "Ok"
    /\ ~HasNode(t)
    /\ tasks[t].gets = 0
    /\ Children(t) = {}

\* C7: the step in which an invocation's existence query finds a node with
\* its canonical URL ends the invocation with Ok and changes neither the
\* store nor the set of tasks; such an invocation never has a node, an
\* edge, a GET or a child.
C7_ShortCircuitFrame ==
    /\ [][\A t \in DOMAIN tasks : QueryFinds(t) =>
            /\ tasks'[t].found
            /\ nodes' = nodes
            /\ edges' = edges
            /\ DOMAIN tasks' = DOMAIN tasks
            /\ \A o \in DOMAIN tasks \ {t} : tasks'[o] = tasks[o]]_vars
    /\ [](\A t \in DOMAIN tasks : tasks[t].found => ShortCircuited(t))

C7_Witness ==
    \E t \in DOMAIN tasks : run = 1 /\ tasks[t].found /\ nodes # {} /\ edges # EmptyBag

\* C8: a run whose seed parsed ends with exit code 0 also when the seed's
\* own invocation ended on a fetch or store error.
C8_RunOutcome ==
    ( /\ mainpc = "exited"
      /\ Started
      /\ UrlParse(Seed(world)) # ParseErr
      /\ tasks[Root].result \in {"Ok", "FetchError", "StoreError"} ) => exit = 0

DeadEnd(t) ==
    /\ Done(t)
    /\ HasNode(t)
    /\ \/ tasks[t].result \in {"FetchError", "StoreError"}
       \/ tasks[t].result = "Ok" /\ ~IsTextual(Web(world, tasks[t].url).ctype)

\* C9: an invocation that ended after persisting its node on a non-textual
\* response, a fetch error or a failed edge creation leaves its node in the
\* table with no outgoing edge and no child, and an invocation that queries
\* the same URL afterwards does not expand it.
C9_DeadEnd ==
    /\ [](\A t \in DOMAIN tasks : DeadEnd(t) =>
            /\ [id |-> NodeId(t), url |-> tasks[t].url] \in nodes
            /\ \A e \in EdgeSet : e.in # NodeId(t)
            /\ Children(t) = {})
    /\ [][\A t \in DOMAIN tasks : \A s \in DOMAIN tasks :
            ( /\ DeadEnd(t)
              /\ tasks[s].pc = "query"
              /\ UrlParse(tasks[s].link) = tasks[t].url
              /\ Stepped(s) ) =>
                /\ tasks'[s].pc = "done"
                /\ tasks'[s].obj.id = None
                /\ DOMAIN tasks' = DOMAIN tasks
                /\ nodes' = nodes]_vars

C9_Witness ==
    \E t \in DOMAIN tasks : \E s \in DOMAIN tasks :
        /\ DeadEnd(t)
        /\ tasks[t].result = "FetchError"
        /\ tasks[s].found
        /\ tasks[s].url = tasks[t].url
        /\ RootReturned

\* C10: an invocation whose GET was answered with a non-2xx status ends
\* with a fetch error and spawns no child.
C10_NonSuccessIsFetchError ==
    \A t \in DOMAIN tasks :
        (tasks[t].gets > 0 /\ Web(world, tasks[t].url).status \notin 200..299) =>
            /\ Children(t) = {}
            /\ Done(t) => tasks[t].result = "FetchError"

\* the content types section 4.3 of the specification declares textual:
\* every text/* subtype and JSON, XML, JavaScript, JSON-LD and XHTML
DeclaredTextual(ct) ==
    \/ Len(ct) >= 2 /\ ct[1] = "text" /\ ct[2] = "/"
    \/ ct \in { <<"application", "/", "json">>,
                <<"application", "/", "xml">>,
                <<"application", "/", "javascript">>,
                <<"application", "/", "ld+json">>,
                <<"application", "/", "xhtml+xml">> }

KidsOf(t) == {Append(t, l) : l \in Links(Web(world, tasks[t].url).body)}

\* C11: an invocation whose GET was answered reads the body and spawns a
\* child per link exactly when the declared content type is text/* or one
\* of JSON, XML, JavaScript, JSON-LD, XHTML; otherwise it returns Ok with
\* no child.
C11_ContentTypeFilter ==
    \A t \in DOMAIN tasks :
        (tasks[t].gets > 0 /\ tasks[t].result # "FetchError") =>
            IF DeclaredTextual(Web(world, tasks[t].url).ctype)
            THEN Children(t) = KidsOf(t)
            ELSE Children(t) = {} /\ Done(t) /\ tasks[t].result = "Ok"

\* an invocation whose node or edge creation failed
PersistFailed(t) ==
    /\ Done(t)
    /\ tasks[t].result \in {"StoreError", "Panic"}
    /\ tasks[t].obj.url # ParseErr

Parent(t) == SubSeq(t, 1, Len(t) - 1)

\* C12: a non-root invocation whose node or edge creation failed has issued
\* no GET and spawned nothing, its parent logs the error when it joins, and
\* when the run ends every other invocation has run to its end.
C12_StoreFailureIsolated ==
    \A t \in DOMAIN tasks \ {Root} :
        PersistFailed(t) =>
            /\ tasks[t].gets = 0
            /\ Children(t) = {}
            /\ Done(Parent(t)) => t \in errlog
            /\ RootReturned => Running = {}

Malformed(t) == UrlParse(tasks[t].link) = ParseErr

\* C13: an invocation whose link does not parse issues no existence query,
\* creates no node and no edge, issues no GET and spawns nothing; once it
\* has returned it never runs again, and without faults its parent returns
\* Ok with all the siblings finished.
C13_MalformedLinkDrop ==
    /\ [](\A t \in DOMAIN tasks : Malformed(t) =>
            /\ tasks[t].pc \in {"query", "done"}
            /\ Done(t) => tasks[t].result = "InvalidURL"
            /\ tasks[t].queries = 0
            /\ tasks[t].gets = 0
            /\ ~HasNode(t)
            /\ \A n \in nodes : n.id # NewId(t) /\ n.url # tasks[t].link
            /\ \A e \in EdgeSet : e.out # NewId(t) /\ e.in # NewId(t)
            /\ Children(t) = {}
            /\ (t # Root /\ Done(Parent(t)) /\ faults = 0) =>
                  /\ tasks[Parent(t)].result = "Ok"
                  /\ \A c \in Children(Parent(t)) : Done(c))
    /\ [][\A t \in DOMAIN tasks :
            (Malformed(t) /\ Done(t) /\ t \in DOMAIN tasks') =>
                tasks'[t] = tasks[t]]_vars

C13_Witness ==
    \E t \in DOMAIN tasks :
        /\ t # Root
        /\ Malformed(t)
        /\ Done(t)
        /\ t \in errlog
        /\ faults = 0
        /\ RootReturned
        /\ \E c \in Children(Parent(t)) : HasNode(c)

\* C14: an invocation has either no child or a child for every link of its
\* page, and whenever it takes a step of its join loop all of them have
\* been spawned.
C14_MaximalFanOut ==
    /\ [](\A t \in DOMAIN tasks :
            /\ Children(t) # {} => Children(t) = KidsOf(t)
            /\ tasks[t].pc \notin {"join", "done"} => Children(t) = {}
            /\ tasks[t].pc = "join" =>
                  tasks[t].handles # {} /\ tasks[t].handles \subseteq Children(t))
    /\ [][\A t \in DOMAIN tasks :
            (tasks[t].pc = "join" /\ Stepped(t)) => Children(t) = KidsOf(t)]_vars

C14_Witness ==
    \E t \in DOMAIN tasks :
        /\ tasks[t].pc = "join"
        /\ Cardinality(Children(t)) >= 3
        /\ Cardinality(tasks[t].handles) = 1

\* C15: an invocation issues at most one GET, and only once its node and the
\* edge from its parent are in the store; one that short-circuited or has no
\* node has issued none, so there are never more GETs than nodes.
C15_SingleFetchAfterPersist ==
    /\ \A t \in DOMAIN tasks :
        /\ tasks[t].gets <= 1
        /\ tasks[t].gets = 1 =>
              /\ HasNode(t)
              /\ [id |-> NodeId(t), url |-> tasks[t].url] \in nodes
              /\ t # Root =>
                    [in |-> tasks[t].source[1].id[1], out |-> NodeId(t)] \in EdgeSet
        /\ (tasks[t].found \/ ~HasNode(t)) => tasks[t].gets = 0
    /\ Cardinality({t \in DOMAIN tasks : tasks[t].gets > 0}) <= Cardinality(nodes)

C15_Witness ==
    \E t \in DOMAIN tasks : \E s \in DOMAIN tasks :
        /\ t # Root
        /\ tasks[t].gets = 1
        /\ tasks[s].found
        /\ RootReturned

\* C16: every edge joins two nodes of the node table, every child was
\* handed a parent node that carries the id of a node of the table, and no
\* invocation panics at the unwrap of its parent's id.
C16_ReferentialIntegrity ==
    /\ \A e \in EdgeSet :
        /\ \E n \in nodes : n.id = e.in
        /\ \E n \in nodes : n.id = e.out
    /\ \A t \in DOMAIN tasks :
        /\ tasks[t].source # None =>
              /\ tasks[t].source[1].id # None
              /\ [id |-> tasks[t].source[1].id[1], url |-> tasks[t].source[1].url] \in nodes
        /\ tasks[t].result = "Panic" => ~HasNode(t)

C16_Witness ==
    /\ BagCardinality(edges) >= 3
    /\ RootReturned
    /\ \E t \in DOMAIN tasks : tasks[t].result = "StoreError" /\ HasNode(t)

SeedUrl == UrlParse(Seed(world))

OneIncomingEdge ==
    /\ \A e \in EdgeSet : CopiesIn(e, edges) = 1
    /\ \A e1 \in EdgeSet, e2 \in EdgeSet : e1.out = e2.out => e1 = e2
    /\ \A e \in EdgeSet : e.out[1] = run =>
          /\ e.out[2] \in DOMAIN tasks \ {Root}
          /\ HasNode(e.out[2])
          /\ e.in = tasks[e.out[2]].source[1].id[1]
    /\ \A n \in NodesWithUrl(SeedUrl) : \A e \in EdgeSet : e.out # n.id

\* C17 as stated: every node is the target of at most one edge, created by
\* the invocation that created the node, the seed's node is the target of
\* none, and the number of edges is at most the number of nodes minus one.
C17_Original ==
    /\ OneIncomingEdge
    /\ BagCardinality(edges) <= Cardinality(nodes) - 1

\* C17 as amended: every node is the target of at most one edge, created by
\* the invocation that created the node, the seed's node is the target of
\* none, and while the node table is not empty the number of edges is at
\* most the number of nodes minus one.
C17_OneIncomingEdge ==
    /\ OneIncomingEdge
    /\ nodes # {} => BagCardinality(edges) <= Cardinality(nodes) - 1

C17_Witness ==
    /\ RootReturned
    /\ Cardinality(nodes) >= 4
    /\ BagCardinality(edges) = Cardinality(nodes) - 1
    /\ \E t \in DOMAIN tasks : tasks[t].found

\* the URLs a page leads to, for a page answered 2xx with a content type
\* the specification declares textual
LinkedFrom(u) ==
    LET res == Web(world, u) IN
    IF res.status \in 200..299 /\ DeclaredTextual(res.ctype)
    THEN {UrlParse(l) : l \in Links(res.body)} \ {ParseErr}
    ELSE {}

RECURSIVE Closure(_, _)
Closure(S, n) ==
    IF n = 0 THEN S ELSE Closure(S \cup UNION {LinkedFrom(u) : u \in S}, n - 1)

Reachable ==
    IF SeedUrl = ParseErr THEN {}
    ELSE Closure({SeedUrl}, Cardinality({UrlA, UrlB, UrlC, UrlD}))

\* C18: when the root call has returned and no fault occurred, every URL
\* reachable from the seed through textual pages has a node.
C18_Coverage ==
    (RootReturned /\ faults = 0) =>
        \A u \in Reachable : NodesWithUrl(u) # {}

====
